---- MODULE Spec2Model ----
(***************************************************************************)
(* Model of src/app.tsx: the random id generator, the random pad geometry  *)
(* generator and the four asynchronous button handlers of the panel.       *)
(*                                                                         *)
(* Numbers.  A JavaScript number v is represented by the integer v*Scale   *)
(* (fixed point, exact rational arithmetic; IEEE-754 rounding is not       *)
(* modelled).  A value of Math.random() is u/RandDen with u in             *)
(* 0..RandDen-1, so it ranges over [0,1) and never reaches 1.              *)
(***************************************************************************)
EXTENDS Integers, Sequences, FiniteSets, TLC

\* ---------------------------------------------------------------- bounds
RandDen == 100
NumDraws == 3
NumRanges == 4
NumMins == 2

Scale == 200 * RandDen

\* n values of Math.random(), evenly spread, always with 0 and the largest
DrawsOf(n) == IF n = 1 THEN {0} ELSE {(k * (RandDen - 1)) \div (n - 1) : k \in 0..(n - 1)}
Draws == DrawsOf(NumDraws)
\* the two extreme values of Math.random()
ExtremeDraws == {0, RandDen - 1}

\* ------------------------------------------------------------ arithmetic
Min2(a, b) == IF a < b THEN a ELSE b
Max2(a, b) == IF a > b THEN a ELSE b
\* v * (n/d) for a fixed-point v and a rational n/d
Frac(v, n, d) == (v * n) \div d
\* Math.floor, result again in fixed point
MathFloor(v) == (v \div Scale) * Scale
\* a * b for two fixed-point numbers of which b is one of the literals
Num(n) == n * Scale

\* ------------------------------------------------------ generateRandomId
chars == <<"a","b","c","d","e","f","g","h","i","j","k","l","m",
           "n","o","p","q","r","s","t","u","v","w","x","y","z",
           "0","1","2","3","4","5","6","7","8","9">>
IdLen == 13

\* String.prototype.charAt: the empty string outside 0..length-1
charAt(s, k) == IF k >= 0 /\ k < Len(s) THEN <<s[k + 1]>> ELSE <<>>

\* slip: Math.round in place of Math.floor
RandomIndexRound(u) == (2 * u * Len(chars) + RandDen) \div (2 * RandDen)

\* Math.floor(Math.random() * chars.length), as a plain index
RandomIndex(u) == (u * Len(chars)) \div RandDen

\* one iteration of the loop body: result += chars.charAt(...)
IdLoopBody(result, u) == result \o charAt(chars, RandomIndex(u))

RECURSIVE IdLoop(_, _, _, _)
IdLoop(result, i, rs, pos) ==
  IF i < IdLen
    THEN IdLoop(IdLoopBody(result, rs[pos + 1]), i + 1, rs, pos + 1)
    ELSE [result |-> result, pos |-> pos]

\* rs: the stream of Math.random() values, pos: how many are consumed
generateRandomId(rs, pos) == IdLoop(<<>>, 0, rs, pos)

\* ----------------------------------------------------- generateRandomPad
marginN == 1
marginD == 10

xRangeOf(bbox) == bbox.max.x - bbox.min.x
yRangeOf(bbox) == bbox.max.y - bbox.min.y
zRangeOf(bbox) == bbox.max.z - bbox.min.z

\* slip: no margin at all, the center anywhere in the box
CenterOfNoMargin(lo, range, u) == lo + Frac(range, u, RandDen)

\* slip: the margin taken off one side only, (1 - margin)
CenterOfOneMargin(lo, range, u) ==
  lo + Frac(range, marginN, marginD)
     + Frac(Frac(range, u, RandDen), marginD - marginN, marginD)

\* lo + range * margin + Math.random() * range * (1 - 2 * margin)
CenterOf(lo, range, u) ==
  lo + Frac(range, marginN, marginD)
     + Frac(Frac(range, u, RandDen), marginD - 2 * marginN, marginD)

\* Math.min(xRange, yRange) * 0.2
MaxSizeOf(bbox) == Frac(Min2(xRangeOf(bbox), yRangeOf(bbox)), 2, 10)

\* slip: the lower clamp forgotten, Math.min(50, ...) only
SizeOfNoFloor(maxSize, u) ==
  Min2(Num(50), Frac(maxSize, 2 * RandDen + 8 * u, 10 * RandDen))

\* Math.max(10, Math.min(50, maxSize * (0.2 + Math.random() * 0.8)))
SizeOf(maxSize, u) ==
  Max2(Num(10), Min2(Num(50), Frac(maxSize, 2 * RandDen + 8 * u, 10 * RandDen)))

\* slip: max.z used where zRange is meant
ElevationOfMaxZ(b, u) == b.min.z + Frac(b.max.z, u, RandDen)

\* bbox.min.z + Math.random() * zRange
ElevationOf(bbox, u) == bbox.min.z + Frac(zRangeOf(bbox), u, RandDen)

\* slip: the range the comment on line 40 announces, 20 to 200
SlopeOfComment(u) == MathFloor(Num(20) + Frac(Num(180), u, RandDen))

\* Math.floor(10 + Math.random() * 100)
SlopeOf(u) == MathFloor(Num(10) + Frac(Num(100), u, RandDen))

\* slip: the corners listed bottom-left, top-left, top-right, bottom-right
CoordinatesOfClockwise(centerX, centerY, halfSize) ==
  << [x |-> centerX - halfSize, y |-> centerY - halfSize],
     [x |-> centerX - halfSize, y |-> centerY + halfSize],
     [x |-> centerX + halfSize, y |-> centerY + halfSize],
     [x |-> centerX + halfSize, y |-> centerY - halfSize] >>

CoordinatesOf(centerX, centerY, halfSize) ==
  << [x |-> centerX - halfSize, y |-> centerY - halfSize],
     [x |-> centerX + halfSize, y |-> centerY - halfSize],
     [x |-> centerX + halfSize, y |-> centerY + halfSize],
     [x |-> centerX - halfSize, y |-> centerY + halfSize] >>

\* The call generateRandomPad(bbox) on the random stream rs.  The result
\* keeps the locals of the call next to the returned pad.
generateRandomPad(bbox, rs) ==
  LET centerX == CenterOf(bbox.min.x, xRangeOf(bbox), rs[1])
      centerY == CenterOf(bbox.min.y, yRangeOf(bbox), rs[2])
      maxSize == MaxSizeOf(bbox)
      size == SizeOf(maxSize, rs[3])
      halfSize == size \div 2
      elevation == ElevationOf(bbox, rs[4])
      slopePercentage == SlopeOf(rs[5])
      idr == generateRandomId(rs, 5)
  IN [ rs |-> rs, centerX |-> centerX, centerY |-> centerY, maxSize |-> maxSize,
       size |-> size, halfSize |-> halfSize, randomCalls |-> idr.pos,
       pad |-> [ id |-> idr.result,
                 coordinates |-> CoordinatesOf(centerX, centerY, halfSize),
                 elevation |-> elevation,
                 slopePercentage |-> slopePercentage,
                 applyGrade |-> TRUE ] ]

\* ------------------------------------------------------------ the inputs
RangeSamples == <<0, 100, 300, 40, 250, 1>>
MinSamples == << [x |-> 0, y |-> 0, z |-> 0], [x |-> -50, y |-> 30, z |-> 5],
                 [x |-> 7, y |-> -7, z |-> -20] >>
ZRanges == {0, 20}
Ranges == {RangeSamples[k] : k \in 1..Min2(NumRanges, Len(RangeSamples))}
Mins == {MinSamples[k] : k \in 1..Min2(NumMins, Len(MinSamples))}

Position(x, y, z) == [x |-> Num(x), y |-> Num(y), z |-> Num(z)]
Bbox(m, xr, yr, zr) ==
  [min |-> Position(m.x, m.y, m.z), max |-> Position(m.x + xr, m.y + yr, m.z + zr)]
Boxes == {Bbox(m, xr, yr, zr) : m \in Mins, xr \in Ranges, yr \in Ranges, zr \in ZRanges}

ConstStream(u) == [i \in 1..IdLen |-> u]
\* a up to position p, b after it
SplitStream(a, b, p) == [i \in 1..IdLen |-> IF i <= p THEN a ELSE b]
\* every stream over the two extremes, and every split stream over Draws
IdStreams == [1..IdLen -> ExtremeDraws]
               \cup {SplitStream(a, b, p) : a \in Draws, b \in Draws, p \in 0..IdLen}
ExampleBox == Bbox(MinSamples[1], 100, 100, 20)

None == [none |-> TRUE]

\* -------------------------------------------------------- the panel, App
MaxClicks == 2

\* the k-th click of a run is served in slot k
Slots == 1..MaxClicks
NullCount == -1
\* the handlers' pads are all generated from one random stream: the panel
\* reads the number of pads only
UiStreams == {[i \in 1..(5 + IdLen) |-> 0]}

\* what a host call can be rejected with: an Error object or a plain string
Errors == { [instanceOfError |-> TRUE, message |-> "host unavailable", str |-> "Error: host unavailable"],
            [instanceOfError |-> FALSE, message |-> "undefined", str |-> "rejected"] }

\* error instanceof Error ? error.message : String(error)
ErrorMessage(error) == IF error.instanceOfError THEN error.message ELSE error.str

\* Number.prototype.toFixed(1), as a count of tenths (ties away from zero)
ToFixed1(v) ==
  IF v >= 0 THEN (20 * v + Scale) \div (2 * Scale)
            ELSE 0 - ((20 * (0 - v) + Scale) \div (2 * Scale))

StatusText(text) == [text |-> text, id |-> <<>>, num |-> 0, err |-> ""]
StatusCreated(pad) ==
  [text |-> "Created pad at elevation", id |-> pad.id, num |-> ToFixed1(pad.elevation), err |-> ""]
StatusCount(text, n) == [text |-> text, id |-> <<>>, num |-> n, err |-> ""]
StatusError(prefix, error) ==
  [text |-> prefix, id |-> <<>>, num |-> 0, err |-> ErrorMessage(error)]

ErrorPrefix(kind) ==
  CASE kind = "create" -> "Error creating pad: "
    [] kind = "delete" -> "Error deleting pads: "
    [] kind = "set" -> "Error setting pads: "
    [] kind = "get" -> "Error getting pads: "

\* A slot holds one invocation of a handler: kind and pc say which
\* await it is at, resp is the settled result of the awaited call, pads the
\* handler's local pad list.  host0, count0 and solo record, for
\* handleCreatePad, the host's pads and the padCount at the click and
\* whether no other handler has run since.
IdleTask == [kind |-> "none", pc |-> "idle", resp |-> None, pads |-> <<>>,
             calls |-> 0, host0 |-> <<>>, count0 |-> NullCount, solo |-> TRUE]
Awaiting == {"getBbox", "addPads", "applyPads", "getPads"}

VARIABLES bbox, gen, idOut, status, padCount, hostPads, tasks, clicks

vars == <<bbox, gen, idOut, status, padCount, hostPads, tasks, clicks>>
genVars == <<bbox, gen, idOut>>
uiVars == <<status, padCount, hostPads, tasks, clicks>>

\* useState("") and useState(null); the host holds no pad yet
InitApp == /\ status = StatusText("")
           /\ padCount = NullCount
           /\ hostPads = <<>>
           /\ tasks = [t \in Slots |-> IdleTask]
           /\ clicks = 0

InitPad == /\ bbox \in Boxes
           /\ gen = None
           /\ idOut = None
           /\ InitApp

\* a caller evaluates generateRandomPad(bbox)
CallGenerateRandomPad ==
  /\ gen = None
  /\ idOut = None
  /\ \E u1 \in Draws, u2 \in Draws, u3 \in Draws, u4 \in Draws, u5 \in Draws, a \in ExtremeDraws :
       gen' = generateRandomPad(bbox, <<u1, u2, u3, u4, u5>> \o ConstStream(a))
  /\ UNCHANGED <<bbox, idOut, uiVars>>

\* the caller drops the result
DropPad ==
  /\ gen # None
  /\ gen' = None
  /\ UNCHANGED <<bbox, idOut, uiVars>>

NextPad == CallGenerateRandomPad \/ DropPad
SpecPad == InitPad /\ [][NextPad]_vars

\* a caller evaluates generateRandomId()
CallGenerateRandomId ==
  /\ idOut = None
  /\ gen = None
  /\ \E rs \in IdStreams : idOut' = generateRandomId(rs, 0)
  /\ UNCHANGED <<bbox, gen, uiVars>>

DropId ==
  /\ idOut # None
  /\ idOut' = None
  /\ UNCHANGED <<bbox, gen, uiVars>>

InitId == /\ bbox = ExampleBox
          /\ gen = None
          /\ idOut = None
          /\ InitApp

NextId == CallGenerateRandomId \/ DropId \/ CallGenerateRandomPad \/ DropPad
SpecId == InitId /\ [][NextId]_vars


\* ======================================================================
\* The four handlers.  A click runs a handler up to its first await; the
\* host serves the awaited call at some later time (resolving or rejecting
\* it); the handler resumes after that, up to its next await or its end.
\* ======================================================================
Active(t) == tasks[t].pc \in Awaiting

\* a handler starts: its first host call is issued
StartTask(t, k, pc, pads) ==
  [kind |-> k, pc |-> pc, resp |-> None, pads |-> pads, calls |-> 1,
   host0 |-> IF k = "create" THEN hostPads ELSE <<>>,
   count0 |-> IF k = "create" THEN padCount ELSE NullCount,
   solo |-> k = "create" => \A o \in Slots \ {t} : ~Active(o)]

Begin(t, k, pc, pads) ==
  /\ clicks < MaxClicks /\ t = clicks + 1
  /\ clicks' = clicks + 1
  /\ tasks' = [s \in Slots |->
                 IF s = t THEN StartTask(t, k, pc, pads)
                 ELSE IF Active(s) /\ tasks[s].kind = "create" THEN [tasks[s] EXCEPT !.solo = FALSE]
                 ELSE tasks[s]]
  /\ UNCHANGED <<padCount, hostPads, genVars>>

\* the next await of a running handler
AwaitNext(task, pc, pads) ==
  [task EXCEPT !.pc = pc, !.resp = None, !.pads = pads, !.calls = task.calls + 1]

\* slip: the rejected call is issued once more instead of ending the handler
CatchTaskRetry(task) == [task EXCEPT !.resp = None, !.calls = task.calls + 1]

\* the handler ends in its catch block
CatchTask(task) == [task EXCEPT !.pc = "failed", !.resp = None]

\* the handler ends after its last statement
EndTask(task) == [task EXCEPT !.pc = "done", !.resp = None]

Resolved(t, k, pc) ==
  /\ tasks[t].kind = k /\ tasks[t].pc = pc
  /\ tasks[t].resp # None /\ tasks[t].resp.ok

Rejected(t, k) ==
  /\ tasks[t].kind = k /\ Active(t)
  /\ tasks[t].resp # None /\ ~tasks[t].resp.ok

\* catch (error) { setStatus(`Error ...: ${message}`); console.error(...) }
Catch(t, k) ==
  /\ status' = StatusError(ErrorPrefix(k), tasks[t].resp.error)
  /\ tasks' = [tasks EXCEPT ![t] = CatchTask(tasks[t])]
  /\ UNCHANGED <<padCount, hostPads, clicks, genVars>>

\* ------------------------------------------------------- handleCreatePad
handleCreatePad(t) ==
  /\ status' = StatusText("Getting terrain bounds...")
  /\ Begin(t, "create", "getBbox", <<>>)

CreatePadGotBbox(t) ==
  /\ Resolved(t, "create", "getBbox")
  /\ \E rs \in UiStreams :
       tasks' = [tasks EXCEPT ![t] =
                   AwaitNext(tasks[t], "addPads", <<generateRandomPad(tasks[t].resp.value, rs).pad>>)]
  /\ status' = StatusText("Adding pad...")
  /\ UNCHANGED <<padCount, hostPads, clicks, genVars>>

CreatePadAdded(t) ==
  /\ Resolved(t, "create", "addPads")
  /\ tasks' = [tasks EXCEPT ![t] = AwaitNext(tasks[t], "getPads", tasks[t].pads)]
  /\ UNCHANGED <<status, padCount, hostPads, clicks, genVars>>

CreatePadGotPads(t) ==
  /\ Resolved(t, "create", "getPads")
  /\ padCount' = Len(tasks[t].resp.value)
  /\ status' = StatusCreated(tasks[t].pads[1])
  /\ tasks' = [tasks EXCEPT ![t] = EndTask(tasks[t])]
  /\ UNCHANGED <<hostPads, clicks, genVars>>

CreatePadCatch(t) ==
  /\ Rejected(t, "create")
  /\ Catch(t, "create")

\* ------------------------------------------------------ handleDeletePads
handleDeletePads(t) ==
  /\ status' = StatusText("Deleting all pads...")
  /\ Begin(t, "delete", "applyPads", <<>>)

DeletePadsApplied(t) ==
  /\ Resolved(t, "delete", "applyPads")
  /\ padCount' = 0
  /\ status' = StatusText("All pads deleted")
  /\ tasks' = [tasks EXCEPT ![t] = EndTask(tasks[t])]
  /\ UNCHANGED <<hostPads, clicks, genVars>>

DeletePadsCatch(t) ==
  /\ Rejected(t, "delete")
  /\ Catch(t, "delete")

\* --------------------------------------------------------- handleSetPads
handleSetPads(t) ==
  /\ status' = StatusText("Getting terrain bounds...")
  /\ Begin(t, "set", "getBbox", <<>>)

SetPadsGotBbox(t) ==
  /\ Resolved(t, "set", "getBbox")
  /\ \E r1 \in UiStreams, r2 \in UiStreams, r3 \in UiStreams :
       tasks' = [tasks EXCEPT ![t] =
                   AwaitNext(tasks[t], "applyPads",
                             << generateRandomPad(tasks[t].resp.value, r1).pad,
                                generateRandomPad(tasks[t].resp.value, r2).pad,
                                generateRandomPad(tasks[t].resp.value, r3).pad >>)]
  /\ status' = StatusText("Setting pads...")
  /\ UNCHANGED <<padCount, hostPads, clicks, genVars>>

SetPadsApplied(t) ==
  /\ Resolved(t, "set", "applyPads")
  /\ padCount' = Len(tasks[t].pads)
  /\ status' = StatusCount("Set new pads", Len(tasks[t].pads))
  /\ tasks' = [tasks EXCEPT ![t] = EndTask(tasks[t])]
  /\ UNCHANGED <<hostPads, clicks, genVars>>

SetPadsCatch(t) ==
  /\ Rejected(t, "set")
  /\ Catch(t, "set")

\* --------------------------------------------------------- handleGetPads
handleGetPads(t) ==
  /\ status' = StatusText("Getting pads...")
  /\ Begin(t, "get", "getPads", <<>>)

GetPadsGotPads(t) ==
  /\ Resolved(t, "get", "getPads")
  /\ padCount' = Len(tasks[t].resp.value)
  /\ status' = StatusCount("Found pad(s)", Len(tasks[t].resp.value))
  /\ tasks' = [tasks EXCEPT ![t] = EndTask(tasks[t])]
  /\ UNCHANGED <<hostPads, clicks, genVars>>

GetPadsCatch(t) ==
  /\ Rejected(t, "get")
  /\ Catch(t, "get")

\* ------------------------------------------------- the host, Forma.terrain
Pending(t, pc) == tasks[t].pc = pc /\ tasks[t].resp = None

Settle(t, value) == tasks' = [tasks EXCEPT ![t].resp = [ok |-> TRUE, value |-> value]]

HostGetBbox(t) ==
  /\ Pending(t, "getBbox")
  /\ Settle(t, bbox)
  /\ UNCHANGED <<status, padCount, hostPads, clicks, genVars>>

HostGetPads(t) ==
  /\ Pending(t, "getPads")
  /\ Settle(t, hostPads)
  /\ UNCHANGED <<status, padCount, hostPads, clicks, genVars>>

\* addPads appends the given pads to the current set
HostAddPads(t) ==
  /\ Pending(t, "addPads")
  /\ hostPads' = hostPads \o tasks[t].pads
  /\ Settle(t, <<>>)
  /\ UNCHANGED <<status, padCount, clicks, genVars>>

\* applyPads replaces the whole set
HostApplyPads(t) ==
  /\ Pending(t, "applyPads")
  /\ hostPads' = tasks[t].pads
  /\ Settle(t, <<>>)
  /\ UNCHANGED <<status, padCount, clicks, genVars>>

\* any awaited call may be rejected; a rejected call changes nothing
HostReject(t) ==
  /\ Active(t) /\ tasks[t].resp = None
  /\ \E e \in Errors : tasks' = [tasks EXCEPT ![t].resp = [ok |-> FALSE, error |-> e]]
  /\ UNCHANGED <<status, padCount, hostPads, clicks, genVars>>

UiBoxes == {ExampleBox}

InitUI == /\ bbox \in UiBoxes
          /\ gen = None
          /\ idOut = None
          /\ InitApp

NextUI ==
  \E t \in Slots :
    \/ handleCreatePad(t) \/ CreatePadGotBbox(t) \/ CreatePadAdded(t)
    \/ CreatePadGotPads(t) \/ CreatePadCatch(t)
    \/ handleDeletePads(t) \/ DeletePadsApplied(t) \/ DeletePadsCatch(t)
    \/ handleSetPads(t) \/ SetPadsGotBbox(t) \/ SetPadsApplied(t) \/ SetPadsCatch(t)
    \/ handleGetPads(t) \/ GetPadsGotPads(t) \/ GetPadsCatch(t)
    \/ HostGetBbox(t) \/ HostGetPads(t) \/ HostAddPads(t) \/ HostApplyPads(t)
    \/ HostReject(t)

SpecUI == InitUI /\ [][NextUI]_vars

\* ======================================================================
\* Properties of generateRandomPad and generateRandomId
\* ======================================================================
Generated == gen # None
PositiveXY == xRangeOf(bbox) > 0 /\ yRangeOf(bbox) > 0
PositiveRanges == PositiveXY /\ zRangeOf(bbox) > 0
\* the 10%-inset rectangle of the bounding box
InsetLoX == bbox.min.x + Frac(xRangeOf(bbox), 1, 10)
InsetHiX == bbox.max.x - Frac(xRangeOf(bbox), 1, 10)
InsetLoY == bbox.min.y + Frac(yRangeOf(bbox), 1, 10)
InsetHiY == bbox.max.y - Frac(yRangeOf(bbox), 1, 10)
Corners == 1..4

\* C1 as stated: on a box with positive ranges every footprint corner lies
\* in the inset region [min + 0.1 range, max - 0.1 range] on both axes
\* (read here in its weakest form, the closed interval).
C1_FootprintInInset ==
  (Generated /\ PositiveRanges) =>
    \A k \in Corners :
      /\ gen.pad.coordinates[k].x >= InsetLoX /\ gen.pad.coordinates[k].x <= InsetHiX
      /\ gen.pad.coordinates[k].y >= InsetLoY /\ gen.pad.coordinates[k].y <= InsetHiY

\* C1 amended: on a box with positive ranges every footprint corner lies
\* within half a side length of the inset region, and inside the bounding
\* box itself whenever the side length did not exceed maxSize.
C1_FootprintNearInset ==
  (Generated /\ PositiveRanges) =>
    \A k \in Corners :
      /\ gen.pad.coordinates[k].x >= InsetLoX - gen.halfSize
      /\ gen.pad.coordinates[k].x < InsetHiX + gen.halfSize
      /\ gen.pad.coordinates[k].y >= InsetLoY - gen.halfSize
      /\ gen.pad.coordinates[k].y < InsetHiY + gen.halfSize
      /\ gen.size <= gen.maxSize =>
            /\ gen.pad.coordinates[k].x >= bbox.min.x
            /\ gen.pad.coordinates[k].x < bbox.max.x
            /\ gen.pad.coordinates[k].y >= bbox.min.y
            /\ gen.pad.coordinates[k].y < bbox.max.y

\* a pad on a positive box that fits the box but reaches into the margin band
C1_Witness ==
  /\ Generated /\ PositiveRanges
  /\ gen.size <= gen.maxSize
  /\ gen.pad.coordinates[1].x < InsetLoX
  /\ gen.pad.coordinates[3].y > InsetHiY

\* C2 as stated: on every valid box, also one with min.z = max.z, the
\* elevation satisfies min.z <= elevation < max.z.
C2_ElevationHalfOpen ==
  Generated => (gen.pad.elevation >= bbox.min.z /\ gen.pad.elevation < bbox.max.z)

\* C2 amended: min.z <= elevation <= max.z on every valid box, and
\* elevation < max.z whenever zRange > 0.
C2_ElevationInRange ==
  Generated =>
    /\ gen.pad.elevation >= bbox.min.z
    /\ gen.pad.elevation <= bbox.max.z
    /\ zRangeOf(bbox) > 0 => gen.pad.elevation < bbox.max.z

\* the flat box: the elevation is max.z itself
C2_Witness ==
  Generated /\ zRangeOf(bbox) = 0 /\ gen.pad.elevation = bbox.max.z

\* C3: the side length lies in [10, 50] and the four corners are
\* (cx-h, cy-h), (cx+h, cy-h), (cx+h, cy+h), (cx-h, cy+h), h = size/2,
\* in this order: an axis-aligned square of side size around the center.
C3_SquareOfSize ==
  Generated =>
    LET c == gen.pad.coordinates
        h == gen.size \div 2
    IN /\ gen.size >= Num(10) /\ gen.size <= Num(50)
       /\ 2 * h = gen.size
       /\ Len(c) = 4
       /\ c[1].x = gen.centerX - h /\ c[1].y = gen.centerY - h
       /\ c[2].x = gen.centerX + h /\ c[2].y = gen.centerY - h
       /\ c[3].x = gen.centerX + h /\ c[3].y = gen.centerY + h
       /\ c[4].x = gen.centerX - h /\ c[4].y = gen.centerY + h
       /\ c[2].x - c[1].x = gen.size /\ c[3].y - c[2].y = gen.size

\* a pad whose side length is strictly between the two clamps
C3_Witness == Generated /\ gen.size > Num(10) /\ gen.size < Num(50)

Alphabet == {chars[k] : k \in 1..Len(chars)}
WellFormedId(id) == Len(id) = 13 /\ \A k \in 1..Len(id) : id[k] \in Alphabet

\* C5: generateRandomId returns 13 characters, each of a-z0-9, after 13
\* draws; a generated pad carries such an id and generateRandomPad made
\* 5 + 13 draws, those of one call of generateRandomId.
C5_IdShape ==
  /\ idOut # None => (WellFormedId(idOut.result) /\ idOut.pos = 13)
  /\ Generated => (WellFormedId(gen.pad.id) /\ gen.randomCalls = 5 + 13)

\* an id that mixes the first and the last character of the alphabet
C5_Witness ==
  /\ idOut # None
  /\ \E j \in 1..13, k \in 1..13 : idOut.result[j] = "a" /\ idOut.result[k] = "9"

C8_CenterStrictlyInside ==
  (Generated /\ PositiveXY) =>
    /\ InsetLoX < gen.centerX /\ gen.centerX < InsetHiX
    /\ InsetLoY < gen.centerY /\ gen.centerY < InsetHiY

\* C8 amended: the center lies in the inset rectangle closed below and
\* open above, min + 0.1 range <= center < max - 0.1 range on both axes.
C8_CenterInInset ==
  (Generated /\ PositiveXY) =>
    /\ InsetLoX <= gen.centerX /\ gen.centerX < InsetHiX
    /\ InsetLoY <= gen.centerY /\ gen.centerY < InsetHiY

\* the draw 0 puts the center on the lower edge of the inset rectangle
C8_Witness ==
  Generated /\ PositiveXY /\ gen.centerX = InsetLoX /\ gen.centerY > InsetLoY
\* ======================================================================
\* Properties of the handlers
\* ======================================================================
RejectedNow(t) == Active(t) /\ tasks[t].resp # None /\ ~tasks[t].resp.ok
Stepped(t) == tasks'[t].pc # tasks[t].pc \/ tasks'[t].resp # tasks[t].resp

\* C7: a rejected host call of any handler is caught.  The step a handler
\* takes after a rejection ends it, sets the status to the handler's
\* "Error ..." text with the failure's message and issues no host call; an
\* ended handler never issues a call again; a later click is not blocked.
C7_FailureCaught ==
  [][\A t \in Slots :
       /\ (RejectedNow(t) /\ Stepped(t)) =>
            /\ tasks'[t].pc = "failed"
            /\ tasks'[t].resp = None
            /\ tasks'[t].calls = tasks[t].calls
            /\ status'.text = ErrorPrefix(tasks[t].kind)
            /\ status'.err = (IF tasks[t].resp.error.instanceOfError
                                THEN tasks[t].resp.error.message
                                ELSE tasks[t].resp.error.str)
            /\ hostPads' = hostPads /\ padCount' = padCount
       /\ tasks[t].pc = "failed" => tasks'[t] = tasks[t]
       /\ (tasks[t].pc = "failed" /\ clicks < MaxClicks) =>
            ENABLED handleGetPads(clicks + 1)
    ]_vars

\* a handler has ended in its catch block after its second host call, and
\* a handler clicked later has run and ended in its own, whose text and
\* message the status shows
C7_Witness ==
  \E t \in Slots, u \in Slots :
    /\ t < u
    /\ tasks[t].pc = "failed" /\ tasks[t].calls = 2
    /\ tasks[u].pc = "failed" /\ tasks[u].kind = "get"
    /\ status.text = "Error getting pads: " /\ status.err = "rejected"

\* C9 as stated: whenever no handler is running and every handler clicked
\* so far has finished without error, padCount is the number of pads the
\* host holds.
C9_CountMatchesHost ==
  (clicks > 0 /\ \A t \in 1..clicks : tasks[t].pc = "done") =>
    padCount = Len(hostPads)

\* C10 as stated: when handleCreatePad has ended in its catch block, the
\* host's pads and padCount are what they were at the click.  Stated for a
\* handler that ran with no other handler before its end and none clicked
\* since, so that nothing but this handler can have changed them.
C10_FailedCreateAddsNothing ==
  \A t \in Slots :
    (tasks[t].kind = "create" /\ tasks[t].pc = "failed" /\ tasks[t].solo /\ clicks = t
       /\ status.text = "Error creating pad: ") =>
      (hostPads = tasks[t].host0 /\ padCount = tasks[t].count0)

====
